---- MODULE Spec2Model ----
(***************************************************************************)
(* Model of the audio player's signal path (src/src/main.rs and            *)
(* src/src/visualizer.rs):                                                 *)
(*   - EqualizerSettings / apply_preset, the UI handlers that edit it,     *)
(*   - the Arc<Mutex<EqualizerSettings>> cell shared by the UI thread      *)
(*     (writer) and the audio thread (reader, EqualizedSource::next),      *)
(*   - EqualizerDSP construction and the per-sample pull,                  *)
(*   - the filters of an EqualizerDSP in f32 arithmetic,                   *)
(*   - AudioVisualizer::add_sample / analyze.                              *)
(*                                                                         *)
(* Units.  f32 values are fixed-point integers:                            *)
(*   gains            tenths of a dB        (1.5 dB  = 15)                  *)
(*   frequencies      hundredths of a Hz    (31.25 Hz = 3125)               *)
(*   magnitudes, bars hundredths            (1.0 = 100, 0.01 = 1)           *)
(*   log10 values     thousandths           (log10 = 3.3 is 3300)           *)
(***************************************************************************)
EXTENDS Integers, Sequences, FiniteSets, TLC

VARIABLES
    equalizer,          \* AudioPlayerApp.equalizer (UI thread's own copy)
    shared_equalizer,   \* content of AudioPlayerApp.shared_equalizer
    lock,               \* holder of the Mutex: "free", "ui" or "audio"
    uiPc,               \* position of the UI thread inside a handler
    uiOp,               \* handler the UI thread is running / ran last
    uiRate,             \* play_current: decoder.sample_rate()
    uiLen,              \* play_current: number of samples the decoder holds
    pending,            \* source appended to a new Sink, not yet picked up
    source,             \* EqualizedSource owned by the audio thread
    aPc,                \* position of the audio thread inside next()
    current_update,     \* local of next(), main.rs:181
    settings,           \* local of next(), main.rs:189 (the clone)
    ret,                \* value returned by the last call of next()
    metaRet,            \* what the Source methods returned since that call
    panicked,           \* an unwrap() failed
    out,                \* history: samples yielded by the current source
    fed,                \* history: samples the current upstream held at start
    published,          \* history: configurations published in full
    completed,          \* history: configuration of the last publication
    version,            \* history: number of publications started
    pullFresh,          \* history: gains current since the pull began
    vis,                \* the AudioVisualizer
    sinceRaise,         \* history: per band, analyses since its peak rose
    lastLoud,           \* history: the last analysed window had sound
    changes,            \* history: changes between silence and sound
    visOp,              \* history: last call on the visualizer
    recent,             \* history: the samples handed to add_sample, newest last
    slides,             \* history: single add_sample calls on a full buffer
    lastBins,           \* history: decibels and bar height of each bin analysed
    lastNew,            \* history: new_spectrum of the last effective analyze
    mapRate,            \* band mapping: the sample rate of the visualizer
    mapBin,             \* band mapping: the bin the loop of analyze is at
    mapBand,            \* band mapping: band_index computed for that bin
    mapPrev,            \* history: band_index of the bin before it
    app,                \* the player: queue, current_index, sink, is_paused, shuffle
    appOp,              \* history: last operation on the player
    bank,               \* an EqualizerDSP with the state of its filters
    bankIn,             \* the sample last handed to its process_sample
    bankOut,            \* what process_sample returned for it
    bankSteps           \* history: calls of process_sample on it

eqVars == <<equalizer, shared_equalizer, lock, uiPc, uiOp, uiRate, uiLen,
            pending, source, aPc, current_update, settings, ret, metaRet,
            panicked, out, fed, published, completed, version, pullFresh>>

vars == <<equalizer, shared_equalizer, lock, uiPc, uiOp, uiRate, uiLen,
          pending, source, aPc, current_update, settings, ret, metaRet,
          panicked, out, fed, published, completed, version, pullFresh, vis,
          sinceRaise, lastLoud, changes, visOp, recent, slides, lastBins,
          lastNew, bank, bankIn, bankOut, bankSteps, mapRate, mapBin,
          mapBand, mapPrev, app, appOp>>

visVars == <<vis, sinceRaise, lastLoud, changes, visOp, recent, slides,
             lastBins, lastNew>>

bankVars == <<bank, bankIn, bankOut, bankSteps>>

mapVars == <<mapRate, mapBin, mapBand, mapPrev>>

playerVars == <<app, appOp>>

----------------------------------------------------------------------------
(* Bounds of the model *)

MaxSamples == 2      \* longest upstream the decoder hands out
MaxPublish == 3      \* publications explored per behaviour
MaxSlides == 1       \* single samples added to a full window per behaviour
MaxChanges == 3      \* changes between silent and sounding windows
MaxBankSteps == 15   \* samples run through the filter bank

(* Inputs *)

SampleRates == {2205000, 4410000}    \* 22.05 kHz and 44.1 kHz files
SliderBands == {1, 10}               \* sliders the user moves
SliderValues == {-100, 55}           \* positions inside -10.0..=10.0
Channels == {1, 2}                   \* mono and stereo files

----------------------------------------------------------------------------
(* EqualizerPreset, EqualizerSettings *)

EqualizerPreset ==
    {"Flat", "Classical", "HipHop", "Pop", "Rock", "HeavyMetal", "Folk",
     "Custom"}

NumBands == 10

EqualizerSettings_new ==
    [preset |-> "Flat", bands |-> [i \in 1..NumBands |-> 0]]

\* apply_preset with the Rock table added to the gains instead of replacing
\* them
apply_preset_relative(eq) ==
    IF eq.preset = "Rock"
    THEN [eq EXCEPT !.bands =
            [i \in 1..Len(eq.bands) |->
                eq.bands[i] + <<20, 15, 10, 0, -10, -10, 0, 10, 15, 20>>[i]]]
    ELSE IF eq.preset = "Custom" THEN eq
    ELSE [eq EXCEPT !.bands = [i \in 1..NumBands |-> 0]]

\* apply_preset whose Custom arm resets the gains
apply_preset_reset(eq) ==
    IF eq.preset \in {"Custom", "Flat"}
    THEN [eq EXCEPT !.bands = [i \in 1..NumBands |-> 0]]
    ELSE [eq EXCEPT !.bands = <<20, 15, 10, 0, -10, -10, 0, 10, 15, 20>>]

apply_preset(eq) ==
    CASE eq.preset = "Flat" ->
            [eq EXCEPT !.bands = [i \in 1..NumBands |-> 0]]
      [] eq.preset = "Classical" ->
            [eq EXCEPT !.bands = <<-20, -10, 0, 10, 20, 20, 10, 0, -10, -20>>]
      [] eq.preset = "HipHop" ->
            [eq EXCEPT !.bands = <<30, 20, 0, -10, -20, -20, -10, 0, 20, 30>>]
      [] eq.preset = "Pop" ->
            [eq EXCEPT !.bands = <<10, 15, 20, 25, 30, 30, 25, 20, 15, 10>>]
      [] eq.preset = "Rock" ->
            [eq EXCEPT !.bands = <<20, 15, 10, 0, -10, -10, 0, 10, 15, 20>>]
      [] eq.preset = "HeavyMetal" ->
            [eq EXCEPT !.bands = <<40, 30, 20, 10, 0, 0, 10, 20, 30, 40>>]
      [] eq.preset = "Folk" ->
            [eq EXCEPT !.bands = <<0, 5, 10, 15, 20, 20, 15, 10, 5, 0>>]
      [] eq.preset = "Custom" -> eq

----------------------------------------------------------------------------
(* EqualizerDSP *)

center_frequencies ==
    <<3125, 6250, 12500, 25000, 50000,
      100000, 200000, 400000, 800000, 1600000>>

\* Result values: [ok |-> TRUE, ...] is Ok(..), [ok |-> FALSE] is Err(..)
Err == [ok |-> FALSE]

\* biquad::Hertz::from_hz: a frequency must be positive
from_hz(hz) == IF hz > 0 THEN [ok |-> TRUE, hz |-> hz] ELSE Err

\* biquad::Coefficients::from_params for Type::PeakingEQ(gain_db), Q = 1.0:
\* the centre frequency must not exceed Nyquist.  The coefficients are a
\* function of these parameters, which stand for them here.
from_params(gain_db, fs, f0, q) ==
    IF 2 * f0 > fs THEN Err
    ELSE IF q < 0 THEN Err
    ELSE [ok |-> TRUE, gain_db |-> gain_db, f0 |-> f0, fs |-> fs]

Panic == [panic |-> TRUE]

IsPanic(x) == "panic" \in DOMAIN x

\* main.rs:131-152; Panic when center_frequencies[i] is out of range or one
\* of the three unwrap() calls meets an Err
EqualizerDSP_new(equalizer_settings, sample_rate) ==
    LET n == Len(equalizer_settings.bands)
        fs == from_hz(sample_rate)
        f0(i) == from_hz(center_frequencies[i])
        coef(i) == from_params(equalizer_settings.bands[i],
                               fs.hz, f0(i).hz, 1)
    IN  IF n = 0 THEN [filters |-> <<>>]
        ELSE IF n > Len(center_frequencies) THEN Panic
        ELSE IF ~fs.ok THEN Panic
        ELSE IF \E i \in 1..n : ~f0(i).ok THEN Panic
        ELSE IF \E i \in 1..n : ~coef(i).ok THEN Panic
        ELSE [filters |-> [i \in 1..n |-> coef(i)]]

\* main.rs:155-157: the sample runs through the filters in series.  The
\* result is kept symbolically: the input and the gains it went through.
process_sample(dsp, sample) ==
    [x |-> sample,
     gains |-> [i \in 1..Len(dsp.filters) |-> dsp.filters[i].gain_db]]

----------------------------------------------------------------------------
(* f32 arithmetic.  A finite f32 is [s, m, e] with value s * m * 2^e, where *)
(* s is 1 or -1 and m is 0 or a 24-bit mantissa in 2^23 .. 2^24 - 1; every  *)
(* operation rounds to nearest, ties to even, as the hardware does.         *)
(* Exponents are not bounded: no overflow to infinity, no subnormals.       *)

\* floor(log2(n)) for n >= 1
RECURSIVE FloorLog2(_)
FloorLog2(n) == IF n < 2 THEN 0 ELSE 1 + FloorLog2(n \div 2)

TwoTo ==
    <<1, 2, 4, 8, 16, 32, 64, 128, 256, 512, 1024, 2048, 4096, 8192, 16384,
      32768, 65536, 131072, 262144, 524288, 1048576, 2097152, 4194304,
      8388608, 16777216, 33554432, 67108864, 134217728, 268435456,
      536870912, 1073741824>>

P2(k) == TwoTo[k + 1]

f32_zero == [s |-> 1, m |-> 0, e |-> 0]
f32_one == [s |-> 1, m |-> P2(23), e |-> -23]
f32_neg(a) == IF a.m = 0 THEN a ELSE [a EXCEPT !.s = -a.s]

\* q rounded up when the remainder r is above half, or at half with q odd
RoundEven(q, r, half) ==
    IF r > half \/ (r = half /\ q % 2 = 1) THEN q + 1 ELSE q

\* the f32 nearest to s * n * 2^e, for 0 <= n < 2^30
f32_normalize(s, n, e) ==
    IF n = 0 THEN f32_zero
    ELSE LET k == FloorLog2(n)
         IN  IF k <= 23
             THEN [s |-> s, m |-> n * P2(23 - k), e |-> e - (23 - k)]
             ELSE LET sh == k - 23
                      q == RoundEven(n \div P2(sh), n % P2(sh), P2(sh - 1))
                  IN  IF q = P2(24)
                      THEN [s |-> s, m |-> P2(23), e |-> e + sh + 1]
                      ELSE [s |-> s, m |-> q, e |-> e + sh]

\* a * b: the 48-bit product of the mantissas is formed from 12-bit halves
f32_mul(a, b) ==
    IF a.m = 0 \/ b.m = 0 THEN f32_zero
    ELSE LET ah == a.m \div 4096
             al == a.m % 4096
             bh == b.m \div 4096
             bl == b.m % 4096
             mid == ah * bl + al * bh
             lo == (mid % 4096) * 4096 + al * bl
             hi == ah * bh + mid \div 4096 + lo \div P2(24)
             low == lo % P2(24)
             big == hi >= P2(23)
             q == IF big THEN RoundEven(hi, low, P2(23))
                  ELSE RoundEven(2 * hi + low \div P2(23), low % P2(23), P2(22))
             ex == a.e + b.e + (IF big THEN 24 ELSE 23)
         IN  IF q = P2(24)
             THEN [s |-> a.s * b.s, m |-> P2(23), e |-> ex + 1]
             ELSE [s |-> a.s * b.s, m |-> q, e |-> ex]

\* |a| >= |b| for non-zero a, b
f32_abs_ge(a, b) == a.e > b.e \/ (a.e = b.e /\ a.m >= b.m)

\* a + b, with three guard bits, the last one sticky
f32_add(a, b) ==
    IF a.m = 0 THEN b
    ELSE IF b.m = 0 THEN a
    ELSE LET x == IF f32_abs_ge(a, b) THEN a ELSE b
             y == IF f32_abs_ge(a, b) THEN b ELSE a
             d == x.e - y.e
             yq == IF d > 27 THEN 0 ELSE (y.m * 8) \div P2(d)
             yr == IF d > 27 THEN 1 ELSE (y.m * 8) % P2(d)
             ys == IF yr # 0 /\ yq % 2 = 0 THEN yq + 1 ELSE yq
             n == IF x.s = y.s THEN x.m * 8 + ys ELSE x.m * 8 - ys
         IN  f32_normalize(x.s, n, x.e - 3)

f32_sub(a, b) == f32_add(a, f32_neg(b))

\* |a| > |b|
f32_abs_gt(a, b) ==
    IF a.m = 0 THEN FALSE
    ELSE IF b.m = 0 THEN TRUE
    ELSE a.e > b.e \/ (a.e = b.e /\ a.m > b.m)

----------------------------------------------------------------------------
(* The filters of an EqualizerDSP, biquad::DirectForm1<f32>.                *)

\* Coefficients::from_params for PeakingEQ(0.0), Q = 1.0 at 44.1 kHz: the
\* normalised a1 = -2 cos(w) / (1 + alpha) and a2 = (1 - alpha) / (1 + alpha)
\* of the ten centre frequencies, as f32
FlatPoles ==
    <<
      [a1 |-> [s |-> -1, m |-> 16739783, e |-> -23], a2 |-> [s |-> 1, m |-> 16702683, e |-> -24]],
      [a1 |-> [s |-> -1, m |-> 16702187, e |-> -23], a2 |-> [s |-> 1, m |-> 16628483, e |-> -24]],
      [a1 |-> [s |-> -1, m |-> 16626509, e |-> -23], a2 |-> [s |-> 1, m |-> 16481076, e |-> -24]],
      [a1 |-> [s |-> -1, m |-> 16473256, e |-> -23], a2 |-> [s |-> 1, m |-> 16190208, e |-> -24]],
      [a1 |-> [s |-> -1, m |-> 16159563, e |-> -23], a2 |-> [s |-> 1, m |-> 15624090, e |-> -24]],
      [a1 |-> [s |-> -1, m |-> 15506316, e |-> -23], a2 |-> [s |-> 1, m |-> 14552869, e |-> -24]],
      [a1 |-> [s |-> -1, m |-> 14116522, e |-> -23], a2 |-> [s |-> 1, m |-> 12642159, e |-> -24]],
      [a1 |-> [s |-> -1, m |-> 11124510, e |-> -23], a2 |-> [s |-> 1, m |-> 9648270, e |-> -24]],
      [a1 |-> [s |-> -1, m |-> 9639182, e |-> -24], a2 |-> [s |-> 1, m |-> 12591446, e |-> -25]],
      [a1 |-> [s |-> 1, m |-> 15832373, e |-> -24], a2 |-> [s |-> 1, m |-> 15090475, e |-> -25]]>>

\* with gain 0 dB the amplitude A = 10^(0/40) is 1.0, so b0, b1, b2 are
\* computed from the same expressions as a0, a1, a2: b0/a0 = 1, b1 = a1,
\* b2 = a2
PeakingEQ_flat(i) ==
    [a1 |-> FlatPoles[i].a1, a2 |-> FlatPoles[i].a2,
     b0 |-> f32_one, b1 |-> FlatPoles[i].a1, b2 |-> FlatPoles[i].a2]

\* main.rs:148: DirectForm1::new(coef), delay lines cleared
DirectForm1_new(coef) ==
    [coef |-> coef, x_z1 |-> f32_zero, x_z2 |-> f32_zero,
     y_z1 |-> f32_zero, y_z2 |-> f32_zero]

\* filter.run(s), main.rs:156: one step of the difference equation,
\* evaluated from left to right
DirectForm1_run(flt, input) ==
    LET c == flt.coef
        y == f32_sub(
               f32_sub(
                 f32_add(
                   f32_add(f32_mul(c.b0, input), f32_mul(c.b1, flt.x_z1)),
                   f32_mul(c.b2, flt.x_z2)),
                 f32_mul(c.a1, flt.y_z1)),
               f32_mul(c.a2, flt.y_z2))
    IN  [flt |-> [flt EXCEPT !.x_z2 = flt.x_z1, !.x_z1 = input,
                             !.y_z2 = flt.y_z1, !.y_z1 = y],
         out |-> y]

\* main.rs:131-152 for the Flat settings at 44.1 kHz, with the filters' state
FlatBank ==
    LET d == EqualizerDSP_new(EqualizerSettings_new, 4410000)
    IN  [i \in 1..Len(d.filters) |-> DirectForm1_new(PeakingEQ_flat(i))]

\* a bank that hands the input sample to every filter (in parallel) and
\* returns what the last one gives
RECURSIVE process_sample_parallel(_, _, _)
process_sample_parallel(filters, i, sample) ==
    IF i > Len(filters)
    THEN [filters |-> filters,
          out |-> IF Len(filters) = 0 THEN sample
                  ELSE filters[Len(filters)].y_z1]
    ELSE LET r == DirectForm1_run(filters[i], sample)
         IN  process_sample_parallel([filters EXCEPT ![i] = r.flt], i + 1,
                                     sample)

\* main.rs:155-157: the fold over the filters, from filter i on
RECURSIVE process_sample_f32(_, _, _)
process_sample_f32(filters, i, sample) ==
    IF i > Len(filters) THEN [filters |-> filters, out |-> sample]
    ELSE LET r == DirectForm1_run(filters[i], sample)
         IN  process_sample_f32([filters EXCEPT ![i] = r.flt], i + 1, r.out)

\* samples handed to the bank: 1.0 and -1.0
BankInputs == {f32_one, f32_neg(f32_one)}

----------------------------------------------------------------------------
NoSource == [tag |-> "NoSource"]
NoSettings == [tag |-> "NoSettings"]
NoRet == [tag |-> "NoRet"]
None == [tag |-> "None"]
Some(v) == [tag |-> "Some", val |-> v]

\* main.rs:337-343 (and 585-591): the EqualizedSource literal.  inner holds
\* the samples the decoder has left, inner_meta what the decoder answers for
\* its channel count, its rate in Hz and its duration.
NewSource(eq, sample_rate, len, ch) ==
    [inner |-> [i \in 1..len |-> i],
     inner_meta |-> [channels |-> ch,
                     sample_rate |-> sample_rate \div 100,
                     total_duration |-> Some(len)],
     dsp |-> EqualizerDSP_new(eq, sample_rate),
     sample_rate |-> sample_rate,
     last_update |-> Len(eq.bands)]

\* main.rs:184: what next() uses as the version marker of the cell
VersionMarker(cfg) == Len(cfg.bands)

\* main.rs:188-192: the chain is rebuilt from the clone when the marker moved
Rebuild(src, current, clone) ==
    IF current # src.last_update
    THEN [src EXCEPT !.dsp = EqualizerDSP_new(clone, src.sample_rate),
                     !.last_update = current]
    ELSE src

\* a pull that drops the sample in front when another one follows
PullOneSkip(src) ==
    IF src.inner = <<>>
    THEN [ret |-> None, inner |-> src.inner]
    ELSE IF Len(src.inner) >= 2
    THEN [ret |-> Some(process_sample(src.dsp, src.inner[2])),
          inner |-> Tail(Tail(src.inner))]
    ELSE [ret |-> Some(process_sample(src.dsp, Head(src.inner))),
          inner |-> Tail(src.inner)]

\* a pull that fabricates a sample once upstream is exhausted
PullOneFabricate(src) ==
    IF src.inner = <<>>
    THEN [ret |-> Some(process_sample(src.dsp, 0)), inner |-> src.inner]
    ELSE [ret |-> Some(process_sample(src.dsp, Head(src.inner))),
          inner |-> Tail(src.inner)]

\* main.rs:194: self.inner.next().map(|sample| self.dsp.process_sample(sample))
PullOne(src) ==
    IF src.inner = <<>>
    THEN [ret |-> None, inner |-> src.inner]
    ELSE [ret |-> Some(process_sample(src.dsp, Head(src.inner))),
          inner |-> Tail(src.inner)]

\* the wrapped source's answers; its frame length depends on its position
inner_current_frame_len(src) == Some(Len(src.inner))
inner_channels(src) == src.inner_meta.channels
inner_sample_rate(src) == src.inner_meta.sample_rate
inner_total_duration(src) == src.inner_meta.total_duration

\* main.rs:202-213: impl Source for EqualizedSource
Source_current_frame_len(src) == inner_current_frame_len(src)
Source_channels(src) == inner_channels(src)
Source_sample_rate(src) == inner_sample_rate(src)

\* a wrapper that keeps the trait's answer for an unknown duration
Source_total_duration_unknown(src) == None

Source_total_duration(src) == inner_total_duration(src)

\* a lock that excludes nobody
CanLockAlways(l) == l \in {"free", "ui", "audio"}

\* Mutex::lock succeeds only on a free mutex
CanLock(l) == l = "free"

----------------------------------------------------------------------------
(* AudioVisualizer, visualizer.rs.  The window, the display and the band   *)
(* count are scaled down (the program's values are 4096, 1024 and 64);     *)
(* the FFT itself (rustfft) is not computed: its output, given as log10 of *)
(* each bin's magnitude, is an input of analyze.                           *)

SPECTRUM_BUFFER_SIZE == 8
SPECTRUM_BANDS == 4
WAVEFORM_POINTS == 2

PEAK_HOLD == 30        \* visualizer.rs:116
PEAK_DECAY == 1        \* visualizer.rs:121, 0.01
DB_FLOOR == -80000     \* visualizer.rs:86, the -80.0 handed to max()
LOG_MIN_HZ == 2000     \* visualizer.rs:94, 20 Hz

\* log10(0.0) = -inf, below every finite value
LogZero == -10000000

Max2(a, b) == IF a >= b THEN a ELSE b

RECURSIVE Pow2(_)
Pow2(e) == IF e = 0 THEN 1 ELSE 2 * Pow2(e - 1)

\* fractional bits of log2(x / 2^14) for x in [2^14, 2^15), by repeated
\* squaring; k bits are produced
RECURSIVE Log2Frac(_, _)
Log2Frac(x, k) ==
    IF k = 0 THEN 0
    ELSE LET sq == (x * x) \div 16384
         IN  IF sq >= 32768
             THEN Pow2(k - 1) + Log2Frac(sq \div 2, k - 1)
             ELSE Log2Frac(sq, k - 1)

\* f32::log10 of an integer n >= 1, in thousandths
Log10Milli(n) ==
    LET e == FloorLog2(n)
        m == IF e >= 14 THEN n \div Pow2(e - 14) ELSE n * Pow2(14 - e)
        l2 == e * 4096 + Log2Frac(m, 12)
    IN  (l2 * 301) \div 4096

AudioVisualizer_new(sample_rate) ==
    [sample_buffer |-> <<>>,
     spectrum_data |-> [i \in 1..SPECTRUM_BANDS |-> 0],
     waveform_data |-> [i \in 1..WAVEFORM_POINTS |-> 0],
     peak_levels |-> [i \in 1..SPECTRUM_BANDS |-> 0],
     sample_rate |-> sample_rate,
     update_needed |-> TRUE,
     peak_hold_frames |-> [i \in 1..SPECTRUM_BANDS |-> 0]]

\* add_sample whose waveform index is not reduced modulo WAVEFORM_POINTS
add_sample_no_wrap(v, sample) ==
    LET popped == IF Len(v.sample_buffer) >= SPECTRUM_BUFFER_SIZE
                  THEN Tail(v.sample_buffer) ELSE v.sample_buffer
        buf == Append(popped, sample)
        waveform_idx == (Len(buf) * WAVEFORM_POINTS) \div SPECTRUM_BUFFER_SIZE
    IN  [v EXCEPT !.sample_buffer = buf,
                  !.update_needed = TRUE,
                  !.waveform_data =
                      IF waveform_idx < Len(v.waveform_data)
                      THEN [v.waveform_data EXCEPT ![waveform_idx + 1] = sample]
                      ELSE v.waveform_data]

\* add_sample that makes room at the back of a full buffer (pop_back)
add_sample_pop_back(v, sample) ==
    LET popped == IF Len(v.sample_buffer) >= SPECTRUM_BUFFER_SIZE
                  THEN SubSeq(v.sample_buffer, 1, Len(v.sample_buffer) - 1)
                  ELSE v.sample_buffer
        buf == Append(popped, sample)
        waveform_idx == ((Len(buf) * WAVEFORM_POINTS) \div SPECTRUM_BUFFER_SIZE)
                            % WAVEFORM_POINTS
    IN  [v EXCEPT !.sample_buffer = buf,
                  !.update_needed = TRUE,
                  !.waveform_data =
                      IF waveform_idx < Len(v.waveform_data)
                      THEN [v.waveform_data EXCEPT ![waveform_idx + 1] = sample]
                      ELSE v.waveform_data]

\* visualizer.rs:36-48
add_sample(v, sample) ==
    LET popped == IF Len(v.sample_buffer) >= SPECTRUM_BUFFER_SIZE
                  THEN Tail(v.sample_buffer) ELSE v.sample_buffer
        buf == Append(popped, sample)
        waveform_idx == ((Len(buf) * WAVEFORM_POINTS) \div SPECTRUM_BUFFER_SIZE)
                            % WAVEFORM_POINTS
    IN  [v EXCEPT !.sample_buffer = buf,
                  !.update_needed = TRUE,
                  !.waveform_data =
                      IF waveform_idx < Len(v.waveform_data)
                      THEN [v.waveform_data EXCEPT ![waveform_idx + 1] = sample]
                      ELSE v.waveform_data]

\* a normalisation whose floor is log10 = -3 (-60 dB) while the offset stays
\* at 80 dB
NormalizedHighFloor(logmag) ==
    LET db == 20 * Max2(logmag, -3000)
    IN  (db + 80000) \div 800

\* visualizer.rs:86: decibels of one bin (thousandths) from log10 of its
\* magnitude (thousandths); max() is applied to the logarithm, before the
\* multiplication by 20
Decibels(logmag) == 20 * Max2(logmag, DB_FLOOR)

\* visualizer.rs:86-88: decibels and the 0..1 normalisation of one bin, from
\* log10 of its magnitude (thousandths); the result is in hundredths
Normalized(logmag) ==
    LET db == Decibels(logmag)
    IN  (db + 80000) \div 800

\* a cast of normalized_log * (bands - 1) that does not saturate at 0: a
\* negative value becomes an index past the last band
band_index_wrapping(i, sample_rate, size, bands) ==
    LET nyquist == sample_rate \div 2
        freq == i * ((2 * nyquist) \div size)
                   + (i * ((2 * nyquist) % size)) \div size
    IN  IF freq > 0
        THEN LET num == Log10Milli(freq) - Log10Milli(LOG_MIN_HZ)
                 den == Log10Milli(nyquist) - Log10Milli(LOG_MIN_HZ)
             IN  IF den = 0
                 THEN (IF num > 0 THEN bands ELSE 0)
                 ELSE IF (num > 0) # (den > 0) THEN bands
                 ELSE IF den > 0
                      THEN (num * (bands - 1)) \div den
                      ELSE ((-num) * (bands - 1)) \div (-den)
        ELSE 0

\* visualizer.rs:73-74, 91-101: display band (0-based) of bin i for a buffer
\* of `size` samples and `bands` bands. freq is i * bin_size with
\* bin_size = nyquist / (size / 2); the cast `as usize` saturates: a negative
\* value gives 0, and a division by zero gives 0 (NaN, -inf) or a value past
\* every band (+inf)
band_index_of(i, sample_rate, size, bands) ==
    LET nyquist == sample_rate \div 2
        freq == i * ((2 * nyquist) \div size)
                   + (i * ((2 * nyquist) % size)) \div size
    IN  IF freq > 0
        THEN LET num == Log10Milli(freq) - Log10Milli(LOG_MIN_HZ)
                 den == Log10Milli(nyquist) - Log10Milli(LOG_MIN_HZ)
             IN  IF den = 0
                 THEN (IF num > 0 THEN bands ELSE 0)
                 ELSE IF (num > 0) # (den > 0) THEN 0
                 ELSE IF den > 0
                      THEN (num * (bands - 1)) \div den
                      ELSE ((-num) * (bands - 1)) \div (-den)
        ELSE 0

\* visualizer.rs:91-101: display band (0-based) of bin i
band_index(i, sample_rate) ==
    band_index_of(i, sample_rate, SPECTRUM_BUFFER_SIZE, SPECTRUM_BANDS)

\* visualizer.rs:77-106: the loop over the bins of the first half of the
\* spectrum, from bin i on; fft[i + 1] is log10 of the magnitude of bin i
RECURSIVE BinLoop(_, _, _, _)
BinLoop(i, new_spectrum, fft, sample_rate) ==
    IF i >= SPECTRUM_BUFFER_SIZE \div 2 THEN new_spectrum
    ELSE LET b == band_index(i, sample_rate)
             next == IF b < SPECTRUM_BANDS
                     THEN [new_spectrum EXCEPT
                             ![b + 1] = Max2(new_spectrum[b + 1],
                                             Normalized(fft[i + 1]))]
                     ELSE new_spectrum
         IN  BinLoop(i + 1, next, fft, sample_rate)

\* visualizer.rs:111: 70% old, 30% new
Smooth(old, new) == (old * 7 + new * 3) \div 10

\* a peak whose hold runs out one frame early
PeakUpdateShort(spectrum, peak, hold) ==
    IF spectrum > peak
    THEN [peak |-> spectrum, hold |-> PEAK_HOLD - 1]
    ELSE IF hold > 0
    THEN [peak |-> peak, hold |-> hold - 1]
    ELSE [peak |-> Max2(peak - PEAK_DECAY, spectrum), hold |-> hold]

\* a peak that decays without the max() against the smoothed value
PeakUpdateNoFloor(spectrum, peak, hold) ==
    IF spectrum > peak
    THEN [peak |-> spectrum, hold |-> PEAK_HOLD]
    ELSE IF hold > 0
    THEN [peak |-> peak, hold |-> hold - 1]
    ELSE [peak |-> peak - PEAK_DECAY, hold |-> hold]

\* visualizer.rs:114-122: peak, hold counter of one band after smoothing
PeakUpdate(spectrum, peak, hold) ==
    IF spectrum > peak
    THEN [peak |-> spectrum, hold |-> PEAK_HOLD]
    ELSE IF hold > 0
    THEN [peak |-> peak, hold |-> hold - 1]
    ELSE [peak |-> Max2(peak - PEAK_DECAY, spectrum), hold |-> hold]

\* analyze without the update_needed test of its early return
analyzeAlways(v, fft) ==
    IF Len(v.sample_buffer) < SPECTRUM_BUFFER_SIZE
    THEN v
    ELSE LET new_spectrum ==
                 BinLoop(0, [i \in 1..SPECTRUM_BANDS |-> 0], fft, v.sample_rate)
             spectrum == [i \in 1..SPECTRUM_BANDS |->
                            Smooth(v.spectrum_data[i], new_spectrum[i])]
             pk(i) == PeakUpdate(spectrum[i], v.peak_levels[i],
                                 v.peak_hold_frames[i])
         IN  [v EXCEPT !.spectrum_data = spectrum,
                       !.peak_levels = [i \in 1..SPECTRUM_BANDS |-> pk(i).peak],
                       !.peak_hold_frames =
                           [i \in 1..SPECTRUM_BANDS |-> pk(i).hold],
                       !.update_needed = FALSE]

\* visualizer.rs:50-126
analyze(v, fft) ==
    IF ~v.update_needed \/ Len(v.sample_buffer) < SPECTRUM_BUFFER_SIZE
    THEN v
    ELSE LET new_spectrum ==
                 BinLoop(0, [i \in 1..SPECTRUM_BANDS |-> 0], fft, v.sample_rate)
             spectrum == [i \in 1..SPECTRUM_BANDS |->
                            Smooth(v.spectrum_data[i], new_spectrum[i])]
             pk(i) == PeakUpdate(spectrum[i], v.peak_levels[i],
                                 v.peak_hold_frames[i])
         IN  [v EXCEPT !.spectrum_data = spectrum,
                       !.peak_levels = [i \in 1..SPECTRUM_BANDS |-> pk(i).peak],
                       !.peak_hold_frames =
                           [i \in 1..SPECTRUM_BANDS |-> pk(i).hold],
                       !.update_needed = FALSE]

\* the sizes of the build (visualizer.rs:7-8), used where the band mapping is
\* examined on its own over every bin
FFT_SIZE == 4096
FFT_BANDS == 64

\* sample rates handed to AudioVisualizer::new, hundredths of Hz: 41 Hz to
\* 96 kHz
MapSampleRates == {4100, 4400, 10000, 800000, 2205000, 4410000, 4800000,
                   9600000}

\* Inputs of the visualizer
VisSampleRates == {4410000}             \* 44.1 kHz
Samples == {0, 100}                     \* 0.0 and 1.0
LogMagnitudes == {LogZero, 3300}        \* magnitude 0 and about 2000

\* what the FFT can return for a window: zeros for an all-zero window (the
\* transform is linear); otherwise the spectra the model explores, every bin
\* at the same magnitude
FftOutputs(buffer) ==
    IF \A k \in 1..Len(buffer) : buffer[k] = 0
    THEN {[i \in 1..(SPECTRUM_BUFFER_SIZE \div 2) |-> LogZero]}
    ELSE {[i \in 1..(SPECTRUM_BUFFER_SIZE \div 2) |-> l] : l \in LogMagnitudes}

\* n calls of add_sample with the same sample
RECURSIVE AddSamples(_, _, _)
AddSamples(v, sample, n) ==
    IF n = 0 THEN v ELSE AddSamples(add_sample(v, sample), sample, n - 1)

----------------------------------------------------------------------------
(* The player: queue, current track, sink and pause flag of AudioPlayerApp.
   A MediaItem is modelled by its name.  An output stream is taken to exist
   (stream_handle is Some).  Whether the file of a track opens and decodes
   is an input of every call that opens it.  The publication and the source
   that play_current builds are the subject of PlayCurrent above. *)

MaxQueue == 3                       \* longest queue explored
Items == {"a", "b"}                 \* the MediaItems that can be added
Folders == {<<>>, <<"a">>, <<"b", "a">>}   \* audio files of the folders

NoSink == [tag |-> "NoSink"]

\* main.rs:345-347: a new Sink with the source appended: playing, not empty
Sink_new == [paused |-> FALSE, empty |-> FALSE]

\* main.rs:286-313
AudioPlayerApp_new ==
    [queue |-> <<>>, current_index |-> None, sink |-> NoSink,
     is_paused |-> FALSE, shuffle |-> FALSE]

\* main.rs:319-320 (and 573-574; total_duration is the constant 240.0)
HasTrack(a) ==
    /\ a.current_index # None
    /\ a.current_index.val < Len(a.queue)

\* main.rs:318-355; decoded: File::open and Decoder::new both succeed
play_current(a, decoded) ==
    IF ~HasTrack(a) THEN a
    ELSE IF decoded
         THEN [a EXCEPT !.sink = Sink_new, !.is_paused = FALSE]
         ELSE [a EXCEPT !.sink = NoSink]

\* main.rs:362-365: what indices.choose() can return
ShuffleChoices(a) ==
    LET indices == {i \in 0..(Len(a.queue) - 1) : a.current_index # Some(i)}
    IN  IF indices = {} THEN {None} ELSE {Some(i) : i \in indices}

\* next_track that steps forward without wrapping to 0
next_track_no_wrap(a, chosen, decoded) ==
    IF Len(a.queue) = 0 THEN a
    ELSE LET idx ==
                 IF a.shuffle
                 THEN (IF chosen # None THEN chosen ELSE a.current_index)
                 ELSE Some(IF a.current_index # None
                           THEN a.current_index.val + 1 ELSE 0)
         IN  play_current([a EXCEPT !.current_index = idx], decoded)

\* main.rs:357-376; chosen is what indices.choose() returned
next_track(a, chosen, decoded) ==
    IF Len(a.queue) = 0 THEN a
    ELSE LET idx ==
                 IF a.shuffle
                 THEN (IF chosen # None THEN chosen ELSE a.current_index)
                 ELSE Some(IF /\ a.current_index # None
                              /\ a.current_index.val + 1 < Len(a.queue)
                           THEN a.current_index.val + 1 ELSE 0)
         IN  play_current([a EXCEPT !.current_index = idx], decoded)

\* main.rs:378-397
prev_track(a, chosen, decoded) ==
    IF Len(a.queue) = 0 THEN a
    ELSE LET idx ==
                 IF a.shuffle
                 THEN (IF chosen # None THEN chosen ELSE a.current_index)
                 ELSE Some(IF /\ a.current_index # None
                              /\ a.current_index.val > 0
                           THEN a.current_index.val - 1
                           ELSE Len(a.queue) - 1)
         IN  play_current([a EXCEPT !.current_index = idx], decoded)

\* main.rs:399-404
pause(a) ==
    IF a.sink # NoSink
    THEN [a EXCEPT !.sink.paused = TRUE, !.is_paused = TRUE]
    ELSE a

\* main.rs:406-411
resume(a) ==
    IF a.sink # NoSink
    THEN [a EXCEPT !.sink.paused = FALSE, !.is_paused = FALSE]
    ELSE a

\* main.rs:420-426
add_file(a, item, decoded) ==
    LET pushed == [a EXCEPT !.queue = Append(a.queue, item)]
    IN  IF pushed.current_index = None
        THEN play_current([pushed EXCEPT !.current_index = Some(0)], decoded)
        ELSE pushed

\* main.rs:428-452; items are the audio files read_dir finds in the folder
add_folder(a, items, decoded) ==
    LET pushed == [a EXCEPT !.queue = a.queue \o items]
    IN  IF pushed.current_index = None /\ Len(pushed.queue) # 0
        THEN play_current([pushed EXCEPT !.current_index = Some(0)], decoded)
        ELSE pushed

\* main.rs:564-570
check_track_finished(a, chosen, decoded) ==
    IF a.sink # NoSink /\ ~a.is_paused /\ a.sink.empty
    THEN next_track(a, chosen, decoded)
    ELSE a

\* main.rs:572-604: a new sink replaces the old one; is_paused is not
\* written
seek_to(a, decoded) ==
    IF HasTrack(a) /\ decoded
    THEN [a EXCEPT !.sink = Sink_new]
    ELSE a

----------------------------------------------------------------------------
(* Initial state: AudioPlayerApp::new, main.rs:286-313 *)

EqInit ==
    /\ equalizer = EqualizerSettings_new
    /\ shared_equalizer = EqualizerSettings_new
    /\ lock = "free"
    /\ uiPc = "idle"
    /\ uiOp = "none"
    /\ uiRate = 0
    /\ uiLen = 0
    /\ pending = NoSource
    /\ source = NoSource
    /\ aPc = "idle"
    /\ current_update = 0
    /\ settings = NoSettings
    /\ ret = NoRet
    /\ metaRet = NoRet
    /\ panicked = FALSE
    /\ out = <<>>
    /\ fed = 0
    /\ published = {EqualizerSettings_new}
    /\ completed = EqualizerSettings_new
    /\ version = 0
    /\ pullFresh = {}

Init ==
    /\ EqInit
    /\ \E sr \in VisSampleRates : vis = AudioVisualizer_new(sr)
    /\ sinceRaise = [i \in 1..SPECTRUM_BANDS |-> PEAK_HOLD + 1]
    /\ lastLoud = FALSE
    /\ changes = 0
    /\ visOp = "new"
    /\ recent = <<>>
    /\ slides = 0
    /\ lastBins = <<>>
    /\ lastNew = [i \in 1..SPECTRUM_BANDS |-> 0]
    /\ bank = FlatBank
    /\ bankIn = f32_zero
    /\ bankOut = f32_zero
    /\ bankSteps = 0
    /\ mapRate = 4410000
    /\ mapBin = 0
    /\ mapBand = band_index_of(0, 4410000, FFT_SIZE, FFT_BANDS)
    /\ mapPrev = 0
    /\ app = AudioPlayerApp_new
    /\ appOp = "new"

uiLocals == <<uiRate, uiLen>>
audioVars == <<source, aPc, current_update, settings, ret, metaRet, out, fed,
              pullFresh>>
history == <<published, completed>>

----------------------------------------------------------------------------
(* UI thread: draw_equalizer_tab, main.rs:615-655.  Each handler edits the  *)
(* UI's own copy and then calls update_equalizer_settings.                  *)

UiIdle == uiPc = "idle" /\ ~panicked /\ version < MaxPublish

BeginPublish(op) ==
    /\ uiOp' = op
    /\ uiPc' = "lock"
    /\ version' = version + 1

\* main.rs:623-636: a preset is clicked in the combo box
SelectPreset(p) ==
    /\ UiIdle
    /\ equalizer' = apply_preset([equalizer EXCEPT !.preset = p])
    /\ BeginPublish("select")
    /\ UNCHANGED <<shared_equalizer, lock, uiLocals, pending, audioVars,
                   panicked, history, visVars, bankVars,
                   mapVars, playerVars>>

\* main.rs:633-636: the "Apply Preset" button
ApplyPresetButton ==
    /\ UiIdle
    /\ equalizer' = apply_preset(equalizer)
    /\ BeginPublish("apply")
    /\ UNCHANGED <<shared_equalizer, lock, uiLocals, pending, audioVars,
                   panicked, history, visVars, bankVars,
                   mapVars, playerVars>>

\* a slider that pushes a new band instead of writing its own
SetBandPush(bands, i, v) == Append(bands, v)

\* main.rs:646: the slider writes its position into the band
SetBand(bands, i, v) == [bands EXCEPT ![i] = v]

\* a slider handler that forgets to publish the edit
SliderEditSilent(i, v) ==
    /\ UiIdle
    /\ equalizer.preset = "Custom"
    /\ i \in 1..Len(equalizer.bands)
    /\ equalizer.bands[i] # v
    /\ equalizer' = [equalizer EXCEPT !.bands = SetBand(equalizer.bands, i, v)]
    /\ uiOp' = "slider"
    /\ version' = version + 1
    /\ UNCHANGED <<shared_equalizer, lock, uiPc, uiLocals, pending, audioVars,
                   panicked, history, visVars, bankVars,
                   mapVars, playerVars>>

\* main.rs:639-654: a band slider is moved (only shown for Custom)
SliderEdit(i, v) ==
    /\ UiIdle
    /\ equalizer.preset = "Custom"
    /\ i \in 1..Len(equalizer.bands)
    /\ equalizer.bands[i] # v
    /\ equalizer' = [equalizer EXCEPT !.bands = SetBand(equalizer.bands, i, v)]
    /\ BeginPublish("slider")
    /\ UNCHANGED <<shared_equalizer, lock, uiLocals, pending, audioVars,
                   panicked, history, visVars, bankVars,
                   mapVars, playerVars>>

\* main.rs:318-335: play_current up to the publication; the track was opened
\* and decoded (rate, len are what the decoder reports and holds)
PlayCurrent(rate, len) ==
    /\ UiIdle
    /\ uiRate' = rate
    /\ uiLen' = len
    /\ BeginPublish("play")
    /\ UNCHANGED <<equalizer, shared_equalizer, lock, pending, audioVars,
                   panicked, history, visVars, bankVars,
                   mapVars, playerVars>>

\* main.rs:609 and 333: shared_equalizer.lock().unwrap()
UiLock ==
    /\ uiPc = "lock"
    /\ CanLock(lock)
    /\ lock' = "ui"
    /\ uiPc' = "write_preset"
    /\ UNCHANGED <<equalizer, shared_equalizer, uiOp, uiLocals, pending,
                   audioVars, panicked, history, version, visVars, bankVars,
                   mapVars, playerVars>>

\* main.rs:610 and 334: *shared = self.equalizer.clone(), field by field
WritePreset(cell, eq) == [cell EXCEPT !.preset = eq.preset]

\* a publication that leaves the gains of the cell as they were
WriteBandsKeep(cell, eq) == cell

WriteBands(cell, eq) == [cell EXCEPT !.bands = eq.bands]

UiWritePreset ==
    /\ uiPc = "write_preset"
    /\ shared_equalizer' = WritePreset(shared_equalizer, equalizer)
    /\ uiPc' = "write_bands"
    /\ UNCHANGED <<equalizer, lock, uiOp, uiLocals, pending, audioVars,
                   panicked, history, version, visVars, bankVars,
                   mapVars, playerVars>>

UiWriteBands ==
    /\ uiPc = "write_bands"
    /\ shared_equalizer' = WriteBands(shared_equalizer, equalizer)
    /\ uiPc' = "unlock"
    /\ UNCHANGED <<equalizer, lock, uiOp, uiLocals, pending, audioVars,
                   panicked, history, version, visVars, bankVars,
                   mapVars, playerVars>>

\* a publication whose guard is leaked (mem::forget): the operation
\* completes and the cell stays locked
UiUnlockLeak ==
    /\ uiPc = "unlock"
    /\ uiPc' = IF uiOp = "play" THEN "build" ELSE "idle"
    /\ published' = published \cup {equalizer}
    /\ completed' = equalizer
    /\ pullFresh' = IF aPc \in {"idle", "done"} THEN pullFresh
                    ELSE pullFresh \cup {equalizer.bands}
    /\ UNCHANGED <<equalizer, shared_equalizer, lock, uiOp, uiLocals, pending,
                   source, aPc, current_update, settings, ret, metaRet, out,
                   fed, panicked, version, visVars, bankVars,
                   mapVars, playerVars>>

\* main.rs:611 and 335: the guard goes out of scope; the publication is
\* complete
UiUnlock ==
    /\ uiPc = "unlock"
    /\ lock' = "free"
    /\ uiPc' = IF uiOp = "play" THEN "build" ELSE "idle"
    /\ published' = published \cup {equalizer}
    /\ completed' = equalizer
    /\ pullFresh' = IF aPc \in {"idle", "done"} THEN pullFresh
                    ELSE pullFresh \cup {equalizer.bands}
    /\ UNCHANGED <<equalizer, shared_equalizer, uiOp, uiLocals, pending,
                   source, aPc, current_update, settings, ret, metaRet, out,
                   fed, panicked, version, visVars, bankVars,
                   mapVars, playerVars>>

\* main.rs:337-349: the new EqualizedSource is built and appended to a new
\* Sink; EqualizerDSP::new runs on the UI thread
UiBuildSource ==
    /\ uiPc = "build"
    /\ ~panicked
    /\ \E ch \in Channels :
          LET src == NewSource(equalizer, uiRate, uiLen, ch)
          IN  IF IsPanic(src.dsp)
              THEN panicked' = TRUE /\ UNCHANGED <<pending, uiPc>>
              ELSE panicked' = FALSE /\ pending' = src /\ uiPc' = "idle"
    /\ UNCHANGED <<equalizer, shared_equalizer, lock, uiOp, uiLocals,
                   audioVars, history, version, visVars, bankVars,
                   mapVars, playerVars>>

----------------------------------------------------------------------------
(* Audio thread: the Sink's mixer pulls EqualizedSource::next,             *)
(* main.rs:179-195                                                         *)

\* the source appended by play_current starts playing; the stopped Sink's
\* source is dropped between two calls of next()
AudioInstall ==
    /\ aPc \in {"idle", "done"}
    /\ ~panicked
    /\ pending # NoSource
    /\ source' = pending
    /\ pending' = NoSource
    /\ aPc' = "idle"
    /\ out' = <<>>
    /\ fed' = Len(pending.inner)
    /\ ret' = NoRet
    /\ metaRet' = NoRet
    /\ UNCHANGED <<equalizer, shared_equalizer, lock, uiPc, uiOp, uiLocals,
                   current_update, settings, panicked, history, version,
                   pullFresh, visVars, bankVars,
                   mapVars, playerVars>>

\* next() is called
AudioBegin ==
    /\ aPc = "idle"
    /\ ~panicked
    /\ source # NoSource
    /\ aPc' = "lock"
    /\ pullFresh' = {completed.bands}
    /\ UNCHANGED <<equalizer, shared_equalizer, lock, uiPc, uiOp, uiLocals,
                   pending, source, current_update, settings, ret, metaRet,
                   panicked, out, fed, history, version, visVars, bankVars,
                   mapVars, playerVars>>

\* main.rs:182
AudioLock ==
    /\ aPc = "lock"
    /\ CanLock(lock)
    /\ lock' = "audio"
    /\ aPc' = "read"
    /\ UNCHANGED <<equalizer, shared_equalizer, uiPc, uiOp, uiLocals, pending,
                   source, current_update, settings, ret, metaRet, panicked,
                   out, fed, history, version, pullFresh, visVars, bankVars,
                   mapVars, playerVars>>

\* a read whose guard stays alive until next() returns
AudioReadHold ==
    /\ aPc = "read"
    /\ current_update' = VersionMarker(shared_equalizer)
    /\ aPc' = "check"
    /\ UNCHANGED <<equalizer, shared_equalizer, lock, uiPc, uiOp, uiLocals,
                   pending, source, settings, ret, metaRet, panicked, out,
                   fed, history, version, pullFresh, visVars, bankVars,
                   mapVars, playerVars>>

\* main.rs:184-185: the marker is read and the guard dropped
AudioRead ==
    /\ aPc = "read"
    /\ current_update' = VersionMarker(shared_equalizer)
    /\ lock' = "free"
    /\ aPc' = "check"
    /\ UNCHANGED <<equalizer, shared_equalizer, uiPc, uiOp, uiLocals, pending,
                   source, settings, ret, metaRet, panicked, out, fed,
                   history, version, pullFresh, visVars, bankVars,
                   mapVars, playerVars>>

\* main.rs:188-192: when the marker moved, the cell is locked again, cloned
\* and released in one statement (189) and the chain rebuilt
AudioCheck ==
    /\ aPc = "check"
    /\ IF current_update # source.last_update
       THEN /\ CanLock(lock)
            /\ settings' = shared_equalizer
            /\ LET src == Rebuild(source, current_update, shared_equalizer)
               IN  IF IsPanic(src.dsp)
                   THEN panicked' = TRUE /\ UNCHANGED <<source, aPc>>
                   ELSE panicked' = FALSE /\ source' = src /\ aPc' = "pull"
       ELSE /\ aPc' = "pull"
            /\ UNCHANGED <<settings, source, panicked>>
    /\ UNCHANGED <<equalizer, shared_equalizer, lock, uiPc, uiOp, uiLocals,
                   pending, current_update, ret, metaRet, out, fed, history,
                   version, pullFresh, visVars, bankVars,
                   mapVars, playerVars>>

\* main.rs:194
AudioPull ==
    /\ aPc = "pull"
    /\ ~panicked
    /\ LET r == PullOne(source)
       IN  /\ ret' = r.ret
           /\ source' = [source EXCEPT !.inner = r.inner]
           /\ out' = IF r.ret = None THEN out ELSE Append(out, r.ret.val.x)
           /\ aPc' = IF r.ret = None THEN "done" ELSE "idle"
    /\ metaRet' = NoRet
    /\ UNCHANGED <<equalizer, shared_equalizer, lock, uiPc, uiOp, uiLocals,
                   pending, current_update, settings, panicked, fed,
                   history, version, pullFresh, visVars, bankVars,
                   mapVars, playerVars>>

\* main.rs:198-214: between two calls of next() the mixer asks the source
\* for its frame length, channels, rate and duration
AudioMeta ==
    /\ aPc \in {"idle", "done"}
    /\ ~panicked
    /\ source # NoSource
    /\ metaRet' = [current_frame_len |-> Source_current_frame_len(source),
                   channels |-> Source_channels(source),
                   sample_rate |-> Source_sample_rate(source),
                   total_duration |-> Source_total_duration(source)]
    /\ UNCHANGED <<equalizer, shared_equalizer, lock, uiPc, uiOp, uiLocals,
                   pending, source, aPc, current_update, settings, ret,
                   panicked, out, fed, history, version, pullFresh, visVars, bankVars,
                   mapVars, playerVars>>

----------------------------------------------------------------------------
Next ==
    \/ \E p \in EqualizerPreset : SelectPreset(p)
    \/ ApplyPresetButton
    \/ \E i \in SliderBands, v \in SliderValues : SliderEdit(i, v)
    \/ \E rate \in SampleRates, len \in 0..MaxSamples : PlayCurrent(rate, len)
    \/ UiLock
    \/ UiWritePreset
    \/ UiWriteBands
    \/ UiUnlock
    \/ UiBuildSource
    \/ AudioInstall
    \/ AudioBegin
    \/ AudioLock
    \/ AudioRead
    \/ AudioCheck
    \/ AudioPull
    \/ AudioMeta

Spec == Init /\ [][Next]_vars

\* Spec under fair scheduling: a thread that can take its next step takes it
\* (weak fairness), and a thread waiting for the mutex gets it if the mutex
\* is free again and again (strong fairness on the steps that lock).  Clicks,
\* key presses and the start of a pull are not forced.
FairSpec ==
    /\ Spec
    /\ SF_vars(UiLock)
    /\ WF_vars(UiWritePreset)
    /\ WF_vars(UiWriteBands)
    /\ WF_vars(UiUnlock)
    /\ SF_vars(AudioLock)
    /\ WF_vars(AudioRead)
    /\ SF_vars(AudioCheck)
    /\ WF_vars(AudioPull)

----------------------------------------------------------------------------
(* The visualizer's operations.  VisSpec feeds the analyzer one window of  *)
(* samples at a time and calls analyze as the UI frame does.               *)

\* add_sample is called once; single samples are followed while the first
\* window fills
\* the last n elements of a sequence
Keep(seq, n) ==
    IF Len(seq) <= n THEN seq ELSE SubSeq(seq, Len(seq) - n + 1, Len(seq))

AddSample(sample) ==
    /\ Len(vis.sample_buffer) >= SPECTRUM_BUFFER_SIZE => slides < MaxSlides
    /\ vis' = add_sample(vis, sample)
    /\ visOp' = "add"
    /\ recent' = Keep(Append(recent, sample), SPECTRUM_BUFFER_SIZE)
    /\ slides' = IF Len(vis.sample_buffer) >= SPECTRUM_BUFFER_SIZE
                 THEN slides + 1 ELSE slides
    /\ UNCHANGED <<eqVars, bankVars, mapVars, playerVars, sinceRaise, lastLoud, changes, lastBins,
                   lastNew>>

\* the audio path hands one window of samples to add_sample
FeedWindow(sample) ==
    /\ vis' = AddSamples(vis, sample, SPECTRUM_BUFFER_SIZE)
    /\ visOp' = "add"
    /\ recent' = [k \in 1..SPECTRUM_BUFFER_SIZE |-> sample]
    /\ UNCHANGED <<eqVars, bankVars, mapVars, playerVars, sinceRaise, lastLoud, changes, slides,
                   lastBins, lastNew>>

IsLoud(fft) == \E i \in 1..Len(fft) : fft[i] # LogZero

\* analyze is past its early return (visualizer.rs:51-53)
Effective(v) ==
    v.update_needed /\ Len(v.sample_buffer) >= SPECTRUM_BUFFER_SIZE

\* the UI frame calls analyze; fft is what the FFT returns for the window
Analyze(fft) ==
    /\ Effective(vis) =>
          changes + (IF IsLoud(fft) # lastLoud THEN 1 ELSE 0) <= MaxChanges
    /\ vis' = analyze(vis, fft)
    /\ visOp' = IF Effective(vis) THEN "analyze" ELSE "noop"
    /\ IF Effective(vis)
       THEN /\ lastLoud' = IsLoud(fft)
            /\ changes' = changes + (IF IsLoud(fft) # lastLoud THEN 1 ELSE 0)
            /\ sinceRaise' =
                  [i \in 1..SPECTRUM_BANDS |->
                     IF vis'.peak_levels[i] > vis.peak_levels[i] THEN 0
                     ELSE IF sinceRaise[i] > PEAK_HOLD THEN sinceRaise[i]
                     ELSE sinceRaise[i] + 1]
            /\ lastBins' = [k \in 1..Len(fft) |->
                              [db |-> Decibels(fft[k]),
                               normalized |-> Normalized(fft[k])]]
            /\ lastNew' = BinLoop(0, [i \in 1..SPECTRUM_BANDS |-> 0], fft,
                                  vis.sample_rate)
       ELSE UNCHANGED <<sinceRaise, lastLoud, changes, lastBins, lastNew>>
    /\ UNCHANGED <<eqVars, bankVars, mapVars, playerVars, recent, slides>>

VisNext ==
    \/ \E sample \in Samples : AddSample(sample)
    \/ \E sample \in Samples : FeedWindow(sample)
    \/ \E fft \in FftOutputs(vis.sample_buffer) : Analyze(fft)

VisSpec == Init /\ [][VisNext]_vars

----------------------------------------------------------------------------
(* A filter bank on its own: BankSpec runs samples through the chain built *)
(* for the Flat settings.                                                  *)

\* process_sample is called with one sample
BankProcess(sample) ==
    /\ bankSteps < MaxBankSteps
    /\ LET r == process_sample_f32(bank, 1, sample)
       IN  /\ bank' = r.filters
           /\ bankOut' = r.out
    /\ bankIn' = sample
    /\ bankSteps' = bankSteps + 1
    /\ UNCHANGED <<eqVars, visVars, mapVars, playerVars>>

BankNext == \E sample \in BankInputs : BankProcess(sample)

BankSpec == Init /\ [][BankNext]_vars

----------------------------------------------------------------------------
(* The band mapping of analyze on its own: the loop of visualizer.rs:80-106
   over the bins of a buffer of FFT_SIZE samples, for one sample rate after
   another *)

\* AudioVisualizer::new with another sample rate; the loop starts at bin 0
MapStart(sample_rate) ==
    /\ mapRate' = sample_rate
    /\ mapBin' = 0
    /\ mapBand' = band_index_of(0, sample_rate, FFT_SIZE, FFT_BANDS)
    /\ mapPrev' = 0
    /\ UNCHANGED <<eqVars, visVars, bankVars, playerVars>>

\* the next iteration of the loop over the bins
MapStep ==
    /\ mapBin + 1 < FFT_SIZE \div 2
    /\ mapBin' = mapBin + 1
    /\ mapBand' = band_index_of(mapBin + 1, mapRate, FFT_SIZE, FFT_BANDS)
    /\ mapPrev' = mapBand
    /\ UNCHANGED <<eqVars, visVars, bankVars, playerVars, mapRate>>

MapNext ==
    \/ \E sample_rate \in MapSampleRates : MapStart(sample_rate)
    \/ MapStep

MapSpec == Init /\ [][MapNext]_vars

----------------------------------------------------------------------------
(* Actions of the player: the buttons, keys and per-frame calls of
   AudioPlayerApp::update, main.rs:659-892 *)

PlayerFrame == <<eqVars, visVars, bankVars, mapVars>>

Choices == IF app.shuffle THEN ShuffleChoices(app) ELSE {None}

\* "Open File", "Add to Queue", a finished download: main.rs:699, 842, 508
AddFile(item, decoded) ==
    /\ Len(app.queue) < MaxQueue
    /\ app' = add_file(app, item, decoded)
    /\ appOp' = "add_file"
    /\ UNCHANGED PlayerFrame

\* "Open Folder": main.rs:706-709
AddFolder(items, decoded) ==
    /\ Len(app.queue) + Len(items) <= MaxQueue
    /\ app' = add_folder(app, items, decoded)
    /\ appOp' = "add_folder"
    /\ UNCHANGED PlayerFrame

\* "Click to play now" in the collections: main.rs:837-839
PlayNow(item, decoded) ==
    /\ Len(app.queue) < MaxQueue
    /\ app' = play_current([app EXCEPT !.queue = <<item>> \o app.queue,
                                       !.current_index = Some(0)], decoded)
    /\ appOp' = "play_now"
    /\ UNCHANGED PlayerFrame

\* a click on track i of the queue: main.rs:788-791
QueueClick(i, decoded) ==
    /\ i < Len(app.queue)
    /\ app' = play_current([app EXCEPT !.current_index = Some(i)], decoded)
    /\ appOp' = "queue_click"
    /\ UNCHANGED PlayerFrame

\* "Next": main.rs:755-757
NextButton(chosen, decoded) ==
    /\ app' = next_track(app, chosen, decoded)
    /\ appOp' = "next_track"
    /\ UNCHANGED PlayerFrame

\* "Prev": main.rs:743-745
PrevButton(chosen, decoded) ==
    /\ app' = prev_track(app, chosen, decoded)
    /\ appOp' = "prev_track"
    /\ UNCHANGED PlayerFrame

\* "Pause", shown while is_paused is false: main.rs:750-753
PauseButton ==
    /\ ~app.is_paused
    /\ app' = pause(app)
    /\ appOp' = "pause"
    /\ UNCHANGED PlayerFrame

\* "Resume", shown while is_paused is true: main.rs:746-749
ResumeButton ==
    /\ app.is_paused
    /\ app' = resume(app)
    /\ appOp' = "resume"
    /\ UNCHANGED PlayerFrame

\* KeyCommand::TogglePause: main.rs:526-534
TogglePause ==
    /\ app' = IF app.is_paused THEN resume(app) ELSE pause(app)
    /\ appOp' = "toggle_pause"
    /\ UNCHANGED PlayerFrame

\* the progress slider, drawn while a current track exists: main.rs:730-737
SeekSlider(decoded) ==
    /\ HasTrack(app)
    /\ app' = seek_to(app, decoded)
    /\ appOp' = "seek_to"
    /\ UNCHANGED PlayerFrame

\* first call of every frame: main.rs:660
CheckTrackFinished(chosen, decoded) ==
    /\ app' = check_track_finished(app, chosen, decoded)
    /\ appOp' = "check_track_finished"
    /\ UNCHANGED PlayerFrame

\* the source of a playing sink runs out: Sink::empty() becomes true
TrackEnds ==
    /\ app.sink # NoSink
    /\ ~app.sink.paused
    /\ ~app.sink.empty
    /\ app' = [app EXCEPT !.sink.empty = TRUE]
    /\ appOp' = "track_ends"
    /\ UNCHANGED PlayerFrame

\* the "Shuffle" checkbox: main.rs:767
ToggleShuffle ==
    /\ app' = [app EXCEPT !.shuffle = ~app.shuffle]
    /\ appOp' = "shuffle"
    /\ UNCHANGED PlayerFrame

PlayerNext ==
    \/ \E item \in Items, decoded \in BOOLEAN : AddFile(item, decoded)
    \/ \E items \in Folders, decoded \in BOOLEAN : AddFolder(items, decoded)
    \/ \E item \in Items, decoded \in BOOLEAN : PlayNow(item, decoded)
    \/ \E i \in 0..(MaxQueue - 1), decoded \in BOOLEAN : QueueClick(i, decoded)
    \/ \E chosen \in Choices, decoded \in BOOLEAN : NextButton(chosen, decoded)
    \/ \E chosen \in Choices, decoded \in BOOLEAN : PrevButton(chosen, decoded)
    \/ PauseButton
    \/ ResumeButton
    \/ TogglePause
    \/ \E decoded \in BOOLEAN : SeekSlider(decoded)
    \/ \E chosen \in Choices, decoded \in BOOLEAN :
          CheckTrackFinished(chosen, decoded)
    \/ TrackEnds
    \/ ToggleShuffle

PlayerSpec == Init /\ [][PlayerNext]_vars

----------------------------------------------------------------------------
(* Claims about the equalizer, checked under Spec *)

RockTable == <<20, 15, 10, 0, -10, -10, 0, 10, 15, 20>>
FlatTable == <<0, 0, 0, 0, 0, 0, 0, 0, 0, 0>>

\* C1 (rebuild on change): a sample returned by next() was filtered with the
\* gains that were current when the call began, or with gains published
\* while it ran; never with older ones.
C1_RebuildOnChange ==
    (aPc = "idle" /\ ret.tag = "Some") => ret.val.gains \in pullFresh

\* C2 (construction failure): building a filter chain never panics, whatever
\* the sample rate of the track.
C2_NoPanicOnBuildFailure == ~panicked

\* C3 (exhaustion): the stream yields every upstream sample once and then
\* None: yielded plus remaining is what upstream held, and None comes only
\* after all of them.
C3_Exhaustion ==
    /\ source # NoSource => Len(out) + Len(source.inner) = fed
    /\ aPc = "done" => ret = None
    /\ ret = None => (Len(out) = fed /\ source.inner = <<>>)

C3_Witness ==
    /\ aPc = "done"
    /\ fed = 2
    /\ Len(out) = 2
    /\ version >= 2
    /\ completed # EqualizerSettings_new

\* C4 (atomic snapshot): whatever the audio thread sees of the cell inside
\* its critical section, and whatever it cloned, is one configuration that
\* was published in full.
C4_AtomicSnapshot ==
    /\ lock = "audio" => shared_equalizer \in published
    /\ settings # NoSettings => settings \in published

C4_Witness ==
    /\ lock = "audio"
    /\ version >= 2
    /\ shared_equalizer.preset = "Rock"
    /\ shared_equalizer \in published

\* C5 (last writer wins): outside a writer's critical section the cell holds
\* exactly the configuration of the latest publication; a writer waiting for
\* the lock is held up by nothing but the reader's critical section, which
\* the reader can always leave.
C5_LastWriterWins ==
    /\ lock # "ui" => shared_equalizer = completed
    /\ (uiPc = "lock" /\ lock # "audio") => ENABLED UiLock
    /\ lock = "audio" => ENABLED AudioRead

C5_Witness ==
    /\ uiPc = "idle"
    /\ version >= 2
    /\ Cardinality(published) >= 3
    /\ shared_equalizer = completed
    /\ source # NoSource
    /\ current_update = 0

\* C6 (band count): the UI's settings and the copy in the cell always hold
\* exactly ten gains.
C6_BandCount ==
    /\ Len(equalizer.bands) = 10
    /\ Len(shared_equalizer.bands) = 10

C6_Witness ==
    /\ uiOp = "slider"
    /\ uiPc = "idle"
    /\ shared_equalizer = equalizer
    /\ equalizer.bands[10] = 55

\* C7 (preset table): right after apply_preset ran with a preset other than
\* Custom, the gains are that preset's table whatever they were before
\* (Flat: all 0; Rock: the Rock table), and applying it again changes nothing.
C7_PresetTable ==
    (uiOp \in {"select", "apply"} /\ equalizer.preset # "Custom") =>
        /\ equalizer.preset = "Flat" => equalizer.bands = FlatTable
        /\ equalizer.preset = "Rock" => equalizer.bands = RockTable
        /\ Len(equalizer.bands) = 10
        /\ apply_preset(equalizer) = equalizer
        /\ \A c \in published :
              apply_preset([c EXCEPT !.preset = equalizer.preset]) = equalizer

C7_Witness ==
    /\ uiOp = "select"
    /\ equalizer.preset = "Rock"
    /\ equalizer.bands = RockTable
    /\ \E c \in published : c.preset = "Custom" /\ c.bands[1] = -100

\* C8 (Custom preserves edits): a handler that runs apply_preset with the
\* preset Custom leaves the ten gains as they were.
C8_CustomPreserves ==
    [][(version' # version /\ uiOp' \in {"select", "apply"}
           /\ equalizer'.preset = "Custom")
        => equalizer'.bands = equalizer.bands]_vars

C8_Witness ==
    /\ uiOp = "apply"
    /\ equalizer.preset = "Custom"
    /\ equalizer.bands = RockTable

\* what the wrapped source itself answers at its present position
UpstreamMeta(src) ==
    [current_frame_len |-> inner_current_frame_len(src),
     channels |-> inner_channels(src),
     sample_rate |-> inner_sample_rate(src),
     total_duration |-> inner_total_duration(src)]

\* C13 (metadata transparency): whenever the Source methods of the
\* EqualizedSource are called they return what the wrapped source answers at
\* that moment, and the call changes neither the stream nor the filters nor
\* the configuration.
C13_MetadataTransparency ==
    [][metaRet' # NoRet =>
          /\ metaRet' = UpstreamMeta(source')
          /\ metaRet' # metaRet =>
                /\ source' = source
                /\ out' = out
                /\ ret' = ret
                /\ shared_equalizer' = shared_equalizer
                /\ current_update' = current_update]_vars

C13_Witness ==
    /\ metaRet # NoRet
    /\ metaRet.channels = 1
    /\ metaRet.current_frame_len = Some(1)
    /\ metaRet.total_duration = Some(2)
    /\ Len(out) = 1
    /\ version >= 2
    /\ completed # EqualizerSettings_new

\* C14 (order preservation): the values yielded so far were computed from
\* the first upstream samples in their order, one per call, and upstream
\* still holds exactly the samples after them; the value just returned was
\* computed from the sample at that position.
C14_OrderPreservation ==
    source # NoSource =>
        /\ out = [i \in 1..Len(out) |-> i]
        /\ Len(out) <= fed
        /\ source.inner = [i \in 1..(fed - Len(out)) |-> Len(out) + i]
        /\ (aPc = "idle" /\ ret.tag = "Some") => ret.val.x = Len(out)

C14_Witness ==
    /\ aPc = "idle"
    /\ ret.tag = "Some"
    /\ ret.val.x = 2
    /\ out = <<1, 2>>
    /\ source.inner = <<>>
    /\ completed.preset = "Rock"

\* C17 (version bump): the write that completes a publication leaves the
\* cell with a version marker strictly greater than the one it had before.
C17_VersionBump ==
    [][(uiPc = "write_bands" /\ uiPc' = "unlock") =>
          VersionMarker(shared_equalizer') > VersionMarker(shared_equalizer)]_vars

\* C18 (single read critical section): between reading the marker and the
\* comparison and clone that use it, next() does not let go of the cell, so
\* the cell cannot change there.
C18_SingleCriticalSection ==
    [][(aPc = "check" /\ aPc' = "check") =>
          shared_equalizer' = shared_equalizer]_vars

\* C19 (bounded lock hold): the audio thread holds the lock only while it
\* reads the marker, never while it compares, builds a chain or pulls a
\* sample; the UI thread holds it only while it copies its settings into
\* the cell, never while it edits them or builds a source.
C19_BoundedLockHold ==
    /\ lock = "audio" => aPc = "read"
    /\ aPc \in {"idle", "lock", "check", "pull", "done"} => lock # "audio"
    /\ lock = "ui" => uiPc \in {"write_preset", "write_bands", "unlock"}
    /\ uiPc \in {"idle", "lock", "build"} => lock # "ui"

C19_Witness ==
    /\ lock = "audio"
    /\ aPc = "read"
    /\ uiPc = "lock"
    /\ uiOp = "slider"
    /\ Len(out) = 1

\* C20 (every UI edit is published): when a handler that changed the
\* settings has returned, and in play_current once its publication is done,
\* the cell holds exactly the UI's settings.
C20_EditsPublished ==
    uiPc \in {"idle", "build"} => shared_equalizer = equalizer

C20_Witness ==
    /\ uiOp = "play"
    /\ uiPc = "idle"
    /\ pending # NoSource
    /\ shared_equalizer = equalizer
    /\ equalizer.preset = "Custom"
    /\ equalizer.bands[1] = -100

----------------------------------------------------------------------------
(* Claim about the lock of the shared cell, checked under FairSpec *)

\* no thread waits for the lock of the shared cell while it holds it, and the
\* lock is held only inside the operation that took it: the three steps of a
\* publication, the marker read of a pull
LockDiscipline ==
    /\ ~(uiPc = "lock" /\ lock = "ui")
    /\ ~(aPc \in {"lock", "check"} /\ lock = "audio")
    /\ lock = "ui" => uiPc \in {"write_preset", "write_bands", "unlock"}
    /\ lock = "audio" => aPc = "read"

\* C30: no thread acquires the lock of the shared cell while it holds it and
\* every acquisition is released within the same operation; under fair
\* scheduling every publication that has started completes and every pull
\* that has started returns.
C30_NoDeadlock ==
    /\ []LockDiscipline
    /\ (uiPc = "lock") ~> (uiPc \in {"idle", "build"})
    /\ (aPc = "lock") ~> (aPc \in {"idle", "done"})

\* the same, for a pull only as long as the process has not panicked
NoDeadlockUnlessPanicked ==
    /\ []LockDiscipline
    /\ (uiPc = "lock") ~> (uiPc \in {"idle", "build"})
    /\ (aPc = "lock") ~> (aPc \in {"idle", "done"} \/ panicked)

\* a pull waits for the lock while the publication of play_current holds it,
\* after two earlier publications
PullWaitsForPublication ==
    /\ aPc = "lock"
    /\ lock = "ui"
    /\ uiPc = "write_bands"
    /\ uiOp = "play"
    /\ version = MaxPublish
    /\ Len(out) > 0

----------------------------------------------------------------------------
(* Claims about the visualizer, checked under VisSpec *)

\* C9 (magnitude bound): every entry of spectrum_data and of peak_levels
\* lies in [0,1].
C9_MagnitudeBound ==
    \A i \in 1..SPECTRUM_BANDS :
        /\ vis.spectrum_data[i] >= 0 /\ vis.spectrum_data[i] <= 100
        /\ vis.peak_levels[i] >= 0 /\ vis.peak_levels[i] <= 100

\* C10 (peak hold): a band's peak decreases only in an analyze call that
\* comes after 30 calls without a rise of that peak; in the 30 calls that
\* follow a rise it never decreases.
C10_PeakHold ==
    [][\A i \in 1..SPECTRUM_BANDS :
          vis'.peak_levels[i] < vis.peak_levels[i]
              => sinceRaise[i] >= PEAK_HOLD]_vars

C10_Witness ==
    \E i \in 1..SPECTRUM_BANDS :
        /\ sinceRaise[i] = PEAK_HOLD
        /\ vis.peak_levels[i] > 0
        /\ vis.spectrum_data[i] = 0
        /\ vis.peak_hold_frames[i] = 0

AllZero(f) == \A i \in DOMAIN f : f[i] = 0

\* C11 (silence): as long as every analysed window was silent, in particular
\* when only zero samples were fed to a fresh visualizer, every entry of
\* spectrum_data and of peak_levels is 0, after any number of analyze calls.
C11_Silence ==
    (changes = 0 /\ ~lastLoud) =>
        /\ AllZero(vis.spectrum_data)
        /\ AllZero(vis.peak_levels)

C11_Witness ==
    /\ visOp = "analyze"
    /\ changes = 0
    /\ ~lastLoud
    /\ ~vis.update_needed
    /\ Len(vis.sample_buffer) = SPECTRUM_BUFFER_SIZE
    /\ AllZero(vis.sample_buffer)
    /\ AllZero(vis.waveform_data)
    /\ AllZero(vis.spectrum_data)
    /\ AllZero(vis.peak_levels)

\* C12 (analyze no-op): a call of analyze that finds update_needed false or
\* fewer samples than a window leaves the whole visualizer as it was; while
\* the first window is not full the outputs keep their initial zeros.
C12_AnalyzeNoOp ==
    [][/\ visOp' = "noop" => vis' = vis
       /\ Len(vis'.sample_buffer) < SPECTRUM_BUFFER_SIZE =>
             /\ AllZero(vis'.spectrum_data)
             /\ AllZero(vis'.peak_levels)
             /\ AllZero(vis'.peak_hold_frames)]_vars

\* a second analyze with no add_sample in between, on a sounding spectrum
\* whose hold counter is running
C12_Witness ==
    /\ visOp = "noop"
    /\ ~vis.update_needed
    /\ Len(vis.sample_buffer) = SPECTRUM_BUFFER_SIZE
    /\ \E i \in 1..SPECTRUM_BANDS :
          /\ vis.spectrum_data[i] > 0
          /\ vis.peak_hold_frames[i] \in 1..(PEAK_HOLD - 1)

\* C21: sample_buffer never holds more than SPECTRUM_BUFFER_SIZE samples; it
\* is the most recent samples handed to add_sample, in the order they came;
\* add_sample on a full buffer drops exactly the oldest sample and appends the
\* new one; and after every add_sample update_needed is set.
C21_BoundedFifo ==
    /\ [](/\ Len(vis.sample_buffer) <= SPECTRUM_BUFFER_SIZE
          /\ vis.sample_buffer = recent
          /\ visOp = "add" => vis.update_needed)
    /\ [][slides' = slides + 1 =>
            /\ Len(vis.sample_buffer) = SPECTRUM_BUFFER_SIZE
            /\ Len(vis'.sample_buffer) = SPECTRUM_BUFFER_SIZE
            /\ \A k \in 1..(SPECTRUM_BUFFER_SIZE - 1) :
                  vis'.sample_buffer[k] = vis.sample_buffer[k + 1]]_vars

\* a full window of different samples has slid by single samples
C21_Witness ==
    /\ slides = MaxSlides
    /\ visOp = "add"
    /\ Len(vis.sample_buffer) = SPECTRUM_BUFFER_SIZE
    /\ vis.sample_buffer[1] = 100
    /\ vis.sample_buffer[2] = 0
    /\ vis.sample_buffer[SPECTRUM_BUFFER_SIZE] = 0

\* C22: in every band the peak is at least the smoothed value; a call of
\* analyze lowers a peak by at most PEAK_DECAY, never below the smoothed value
\* of that call, and only if the hold counter of the band was 0 before it.
C22_PeakDominates ==
    /\ [](\A i \in 1..SPECTRUM_BANDS :
             vis.peak_levels[i] >= vis.spectrum_data[i])
    /\ [][\A i \in 1..SPECTRUM_BANDS :
             vis'.peak_levels[i] < vis.peak_levels[i] =>
                /\ vis.peak_levels[i] - vis'.peak_levels[i] <= PEAK_DECAY
                /\ vis'.peak_levels[i] >= vis'.spectrum_data[i]
                /\ vis.peak_hold_frames[i] = 0]_vars

\* a peak raised by a sounding window has been held and is now decaying
\* above its bar
C22_Witness ==
    /\ visOp = "analyze"
    /\ \E i \in 1..SPECTRUM_BANDS :
          /\ vis.peak_hold_frames[i] = 0
          /\ sinceRaise[i] > PEAK_HOLD
          /\ vis.peak_levels[i] > vis.spectrum_data[i]
          /\ vis.spectrum_data[i] = 0
          /\ vis.peak_levels[i] > 100

\* C23: the decibel value of a bin is never below -80 dB, so the normalised
\* value (db + 80) / 80 is never negative, also for a bin of magnitude 0.
C23_DecibelFloor ==
    \A k \in 1..Len(lastBins) :
        /\ lastBins[k].db >= -80000
        /\ lastBins[k].normalized >= 0

\* the bins that analyze maps to band b (0-based)
BinsOf(b, sample_rate) ==
    {i \in 0..(SPECTRUM_BUFFER_SIZE \div 2 - 1) :
        band_index(i, sample_rate) = b}

MaxOf(S) == CHOOSE x \in S : \A y \in S : x >= y

\* C25: after an effective analyze the value of every band before smoothing
\* is the largest normalised magnitude among the bins mapped to the band,
\* and 0 for a band no bin maps to.
C25_BandMaximum ==
    lastBins # <<>> =>
       \A b \in 0..(SPECTRUM_BANDS - 1) :
          lastNew[b + 1] =
             IF BinsOf(b, vis.sample_rate) = {} THEN 0
             ELSE MaxOf({lastBins[i + 1].normalized :
                            i \in BinsOf(b, vis.sample_rate)})

\* C27: waveform_data always has WAVEFORM_POINTS entries; a single add_sample
\* writes its sample to one entry of it at most and changes no other; and
\* once sample_buffer is full every further add_sample writes its sample to
\* waveform_data[0] and leaves the other entries unchanged.
C27_WaveformPosition ==
    /\ [](Len(vis.waveform_data) = WAVEFORM_POINTS)
    /\ [][visOp' = "add" =>
            /\ Len(vis'.sample_buffer) = Len(vis.sample_buffer) + 1 =>
                  \E j \in 1..WAVEFORM_POINTS :
                     vis'.waveform_data =
                        [vis.waveform_data EXCEPT
                           ![j] = vis'.sample_buffer[Len(vis'.sample_buffer)]]
            /\ Len(vis.sample_buffer) = SPECTRUM_BUFFER_SIZE =>
                  vis'.waveform_data =
                     [vis.waveform_data EXCEPT
                        ![1] = vis'.sample_buffer[SPECTRUM_BUFFER_SIZE]]]_vars

\* a sample added to a full buffer has overwritten waveform_data[0]; the
\* entry written while the buffer filled is still there
C27_Witness ==
    /\ visOp = "add"
    /\ slides = MaxSlides
    /\ vis.sample_buffer[SPECTRUM_BUFFER_SIZE] = 100
    /\ vis.sample_buffer[SPECTRUM_BUFFER_SIZE - 1] = 0
    /\ vis.waveform_data[1] = 100
    /\ vis.waveform_data[WAVEFORM_POINTS] = 0

----------------------------------------------------------------------------
(* Claims about the band mapping, checked under MapSpec *)

\* C24: for every bin of the first half of the spectrum and every sample
\* rate above 40 Hz the band index lies in 0..FFT_BANDS-1, so the guard
\* band_index < SPECTRUM_BANDS rejects no bin; bin 0 maps to band 0; and the
\* band index does not decrease from one bin to the next.
C24_BandRange ==
    /\ mapRate > 4000 =>
          /\ mapBand \in 0..(FFT_BANDS - 1)
          /\ mapBin = 0 => mapBand = 0
          /\ mapBand >= mapPrev

\* the loop has reached the last bin of a 41 Hz visualizer and is past the
\* bins below 20 Hz
C24_Witness ==
    /\ mapRate = 4100
    /\ mapBin = FFT_SIZE \div 2 - 1
    /\ mapBand > 0

----------------------------------------------------------------------------
(* Claims about the player, checked under PlayerSpec *)

\* C28: whenever a sink exists, is_paused is true exactly when that sink is
\* paused; in particular a seek while paused does not leave is_paused true
\* with a playing sink.
C28_PauseFlagMatchesSink ==
    app.sink # NoSink => (app.is_paused <=> app.sink.paused)

\* C29: current_index is None with an empty queue, or Some(i) with
\* i < queue.len(); with shuffle off next_track moves to the next index and
\* from the last to 0, prev_track moves to the index before and from 0 to
\* the last, and prev_track after next_track gives the index back.
C29_QueueIndex ==
    /\ [](IF Len(app.queue) = 0
          THEN app.current_index = None
          ELSE \E i \in 0..(Len(app.queue) - 1) : app.current_index = Some(i))
    /\ [][(appOp' = "next_track" /\ ~app.shuffle /\ Len(app.queue) > 0) =>
             app'.current_index =
                Some((app.current_index.val + 1) % Len(app.queue))]_vars
    /\ [][(appOp' = "prev_track" /\ ~app.shuffle /\ Len(app.queue) > 0) =>
             app'.current_index =
                Some((app.current_index.val + Len(app.queue) - 1)
                        % Len(app.queue))]_vars
    /\ [](~app.shuffle /\ Len(app.queue) > 0 =>
             \A d1, d2 \in BOOLEAN :
                prev_track(next_track(app, None, d1), None, d2).current_index
                   = app.current_index)

\* with shuffle off, Next on the last track of a full queue has wrapped to
\* the first
C29_Witness ==
    /\ appOp = "next_track"
    /\ ~app.shuffle
    /\ Len(app.queue) = MaxQueue
    /\ app.current_index = Some(0)
    /\ app.sink # NoSink

----------------------------------------------------------------------------
(* Claims about the filter bank, checked under BankSpec *)

\* C26: the EqualizerDSP has one filter per band, filter i built from gain i
\* and centre frequency i; process_sample hands the sample to filter 0, the
\* output of each filter to the next one, and returns the output of the
\* last.
C26_Cascade ==
    /\ \A p \in EqualizerPreset \ {"Custom"} :
          LET eq == apply_preset([EqualizerSettings_new EXCEPT !.preset = p])
              d == EqualizerDSP_new(eq, 4410000)
          IN  /\ ~IsPanic(d)
              /\ Len(d.filters) = Len(eq.bands)
              /\ \A i \in 1..Len(eq.bands) :
                    /\ d.filters[i].gain_db = eq.bands[i]
                    /\ d.filters[i].f0 = center_frequencies[i]
    /\ Len(bank) = NumBands
    /\ \A i \in 1..Len(bank) : bank[i].coef = PeakingEQ_flat(i)
    /\ bankSteps > 0 =>
          /\ bank[1].x_z1 = bankIn
          /\ \A i \in 2..Len(bank) : bank[i].x_z1 = bank[i - 1].y_z1
          /\ bankOut = bank[Len(bank)].y_z1

\* samples have run through the bank and the filters have changed them on
\* the way: the first filter's output differs from its input and the last
\* filter's output from the first's
C26_Witness ==
    /\ bankSteps > 0
    /\ bank[1].y_z1 # bankIn
    /\ bankOut # bank[1].y_z1
    /\ bank[NumBands].x_z1 # bankIn

\* 1e-5 rounded up to the next f32
Tolerance == [s |-> 1, m |-> 10995117, e |-> -40]

\* C16 (Flat is identity): the chain built from ten gains of 0 dB returns
\* every sample it is handed, within 1e-5, whatever it was handed before.
C16_FlatIdentity ==
    bankSteps > 0 => ~f32_abs_gt(f32_sub(bankOut, bankIn), Tolerance)

====
